---- MODULE Spec2Model ----
(***************************************************************************)
(* Beam search decoding of TransformerModel (src/model/transformer_model.py)*)
(* as a state machine.  Tensors are functions: a (batch, beam) tensor is a *)
(* function [0..B-1 -> [0..beam-1 -> value]], a (batch, beam, vocab) tensor*)
(* adds a level over 0..V-1.  Scores are exact rationals <<num, den>> in   *)
(* lowest terms with den > 0; log-probabilities are negative integers.     *)
(* The ~ of the uint8 tensor is_end is the logical negation it is in the   *)
(* PyTorch the code was written for (1 - x on byte tensors).               *)
(***************************************************************************)
EXTENDS Integers, Sequences, FiniteSets, TLC

\* ------------------------------------------------------------------ bounds
\* largest configured max_seq_len
MaxSeqLen == 3
\* largest configured max_seq_len of the configurations that sample, that
\* have three beams in one group, or that vary the arguments of the call
MaxShortLen == 2

\* ------------------------------------------------- vocabulary of the model
n_embeddings == 5
padding_idx == 0
bos_id == 1
eos_id == 2
Vocab == 0 .. (n_embeddings - 1)

\* ---------------------------------------------------------------- rationals
RECURSIVE GCD(_, _)
GCD(a, b) == IF b = 0 THEN a ELSE GCD(b, a % b)

Abs(x) == IF x < 0 THEN -x ELSE x

Rat(n, d) ==
    LET s == IF d < 0 THEN -1 ELSE 1
        k == GCD(Abs(n), Abs(d))
    IN  <<(s * n) \div k, (s * d) \div k>>

RInt(n) == <<n, 1>>
RAdd(x, y) == Rat(x[1] * y[2] + y[1] * x[2], x[2] * y[2])
RSub(x, y) == Rat(x[1] * y[2] - y[1] * x[2], x[2] * y[2])
RMul(x, y) == Rat(x[1] * y[1], x[2] * y[2])
RDiv(x, y) == Rat(x[1] * y[2], x[2] * y[1])
RLess(x, y) == x[1] * y[2] < y[1] * x[2]

RECURSIVE Pow(_, _)
Pow(b, e) == IF e = 0 THEN 1 ELSE b * Pow(b, e - 1)

\* ------------------------------------------------------------ configuration
\* The constructor arguments of TransformerModel that beam_search reads and
\* the arguments of the beam_search call.  annealing_topk = 0 stands for None,
\* starts_len = -1 for beam_starts = None; annealing_proba is a rational.
BaseCfg ==
    [batch_size |-> 1, beam_size |-> 2, diversity_groups |-> 1,
     length_penalty_coef |-> 0, diversity_coef |-> 0,
     annealing_proba |-> <<0, 1>>, annealing_topk |-> 0,
     sample_best_beam |-> FALSE, max_seq_len |-> 1, n_pos_embeddings |-> 8,
     n_contexts |-> 1, starts_len |-> -1, return_beams |-> FALSE]

GreedyCfgs ==
    { [BaseCfg EXCEPT !.beam_size = bg[1], !.diversity_groups = bg[2],
                      !.length_penalty_coef = ac[1], !.diversity_coef = ac[2],
                      !.max_seq_len = m] :
        bg \in {<<1, 1>>, <<2, 1>>, <<2, 2>>, <<3, 2>>},
        ac \in {<<0, 0>>, <<1, 0>>, <<1, 1>>}, m \in 1 .. MaxSeqLen }

BatchCfgs ==
    { [BaseCfg EXCEPT !.batch_size = 2, !.beam_size = 1,
                      !.length_penalty_coef = a, !.max_seq_len = m] :
        a \in {0, 1}, m \in 1 .. MaxSeqLen }

\* configurations that sample: <<beam_size, diversity_groups, annealing_topk>>
SampleCfgs ==
    { [BaseCfg EXCEPT !.beam_size = bgk[1], !.diversity_groups = bgk[2],
                      !.annealing_topk = bgk[3], !.annealing_proba = p,
                      !.length_penalty_coef = ac[1], !.diversity_coef = ac[2],
                      !.max_seq_len = MaxShortLen] :
        bgk \in {<<1, 1, 0>>, <<2, 1, 2>>, <<2, 2, 2>>},
        p \in {<<1, 2>>, <<1, 1>>}, ac \in {<<0, 0>>, <<1, 1>>} }

\* three beams in one diversity group
WideCfgs ==
    { [BaseCfg EXCEPT !.beam_size = 3, !.length_penalty_coef = a,
                      !.max_seq_len = MaxShortLen] : a \in {0, 1} }

CallCfgs ==
    { [BaseCfg EXCEPT !.n_contexts = cs[1], !.starts_len = cs[2],
                      !.n_pos_embeddings = cs[3], !.max_seq_len = m,
                      !.return_beams = rb, !.sample_best_beam = sb] :
        cs \in {<<0, -1, 8>>, <<0, 2, 4>>, <<1, 2, 3>>, <<0, 1, 8>>},
        m \in 1 .. MaxShortLen, rb \in BOOLEAN, sb \in BOOLEAN }

\* a length_penalty above 1
SteepCfgs ==
    { [BaseCfg EXCEPT !.length_penalty_coef = 2, !.max_seq_len = MaxShortLen] }

\* a batch of two that samples
BatchSampleCfgs ==
    { [BaseCfg EXCEPT !.batch_size = 2, !.beam_size = 1, !.annealing_topk = 2,
                      !.annealing_proba = <<1, 2>>, !.max_seq_len = MaxShortLen] }

Configs ==
    GreedyCfgs \cup BatchCfgs \cup SampleCfgs \cup WideCfgs \cup CallCfgs
        \cup SteepCfgs \cup BatchSampleCfgs

\* values random.random() returns, as rationals in [0, 1)
RandVals == {<<0, 1>>, <<1, 2>>}

\* rows of log-probabilities the decoder can produce for one beam, indexed by
\* token + 1: a best and eos second, eos best and a second, a and b tied
Rows == { <<-4, -4, -2, -1, -3>>, <<-4, -4, -1, -2, -3>>, <<-4, -4, -3, -1, -1>> }

\* cfg: the configuration and call arguments; tie: the tie order of topk;
\* pc: the position in beam_search; calls: the decoder invocations so far;
\* entry_scores: beam_scores as the current step read it (line 220);
\* sampled: the decisions of the _sample calls of the current step; the rest
\* are the locals of beam_search under their names.  twin: a second run of
\* the same call; draws: what random.random() last returned in the two runs.
VARIABLES
    cfg, tie,
    pc, i, g, max_seq_len, calls,
    prevs, beam_scores, beam_lens, is_end, entry_scores,
    cand, penalty, log_probs, diversity_penalty, past,
    current_sample_prob, all_scores, all_idxs, idxs, beam_idxs,
    sampled, bests, predicts,
    twin, draws

runvars == <<pc, i, g, max_seq_len, calls, prevs, beam_scores, beam_lens, is_end,
             entry_scores, cand, penalty, log_probs, diversity_penalty, past,
             current_sample_prob, all_scores, all_idxs, idxs, beam_idxs,
             sampled, bests, predicts>>
vars == <<cfg, tie, runvars, twin, draws>>

Batch == 0 .. (cfg.batch_size - 1)
Beams == 0 .. (cfg.beam_size - 1)
group_size == cfg.beam_size \div cfg.diversity_groups


\* ------------------------------------------------ one run of beam_search
\* The locals of one beam_search call as a record; the variables above hold
\* the record of the run, twin the record of a second run on the same inputs.
Idle ==
    [pc |-> "start", i |-> 0, g |-> 0, max_seq_len |-> 0, calls |-> 0,
     prevs |-> <<>>, beam_scores |-> <<>>, beam_lens |-> <<>>, is_end |-> <<>>,
     entry_scores |-> <<>>, cand |-> <<>>, penalty |-> <<>>, log_probs |-> <<>>,
     diversity_penalty |-> <<>>, past |-> <<>>,
     current_sample_prob |-> <<1, 1>>, all_scores |-> <<>>, all_idxs |-> <<>>,
     idxs |-> <<>>, beam_idxs |-> <<>>, sampled |-> <<>>, bests |-> <<>>,
     predicts |-> <<>>]

Cur ==
    [pc |-> pc, i |-> i, g |-> g, max_seq_len |-> max_seq_len, calls |-> calls,
     prevs |-> prevs, beam_scores |-> beam_scores, beam_lens |-> beam_lens,
     is_end |-> is_end, entry_scores |-> entry_scores, cand |-> cand, penalty |-> penalty,
     log_probs |-> log_probs, diversity_penalty |-> diversity_penalty,
     past |-> past, current_sample_prob |-> current_sample_prob,
     all_scores |-> all_scores, all_idxs |-> all_idxs, idxs |-> idxs,
     beam_idxs |-> beam_idxs, sampled |-> sampled, bests |-> bests,
     predicts |-> predicts]

Set(s) ==
    /\ pc' = s.pc /\ i' = s.i /\ g' = s.g /\ max_seq_len' = s.max_seq_len
    /\ calls' = s.calls /\ prevs' = s.prevs /\ beam_scores' = s.beam_scores
    /\ beam_lens' = s.beam_lens /\ is_end' = s.is_end /\ cand' = s.cand
    /\ entry_scores' = s.entry_scores
    /\ penalty' = s.penalty /\ log_probs' = s.log_probs
    /\ diversity_penalty' = s.diversity_penalty /\ past' = s.past
    /\ current_sample_prob' = s.current_sample_prob
    /\ all_scores' = s.all_scores /\ all_idxs' = s.all_idxs /\ idxs' = s.idxs
    /\ beam_idxs' = s.beam_idxs /\ sampled' = s.sampled /\ bests' = s.bests
    /\ predicts' = s.predicts

Min(a, b) == IF a < b THEN a ELSE b

LengthPenaltyInverse(len) ==
    Rat(Pow(5 + 1, cfg.length_penalty_coef), Pow(5 + len, cfg.length_penalty_coef))

\* _length_penalty: (5 + len)^alpha / (5 + 1)^alpha
LengthPenalty(len) ==
    Rat(Pow(5 + len, cfg.length_penalty_coef), Pow(5 + 1, cfg.length_penalty_coef))

Worse(f, x, y) ==
    \/ RLess(f[x], f[y])
    \/ f[y] = f[x] /\ (IF tie = "first" THEN x < y ELSE x > y)

\* torch.topk / argmax order: larger score first; equal scores in the order
\* of the build, lowest index first or highest index first
Better(f, x, y) ==
    \/ RLess(f[y], f[x])
    \/ f[y] = f[x] /\ (IF tie = "first" THEN x < y ELSE x > y)

Best(f, S) == CHOOSE x \in S : \A y \in S \ {x} : Better(f, x, y)

RECURSIVE TopKFromKeep(_, _, _)
TopKFromKeep(f, S, k) ==
    IF k = 0 THEN <<>>
    ELSE <<Best(f, S)>> \o TopKFromKeep(f, S, k - 1)

RECURSIVE TopKFrom(_, _, _)
TopKFrom(f, S, k) ==
    IF k = 0 THEN <<>>
    ELSE LET x == Best(f, S) IN <<x>> \o TopKFrom(f, S \ {x}, k - 1)

\* Tensor.topk(k): the indices of the k best entries, best first
TopK(f, k) == TopKFrom(f, DOMAIN f, k)

Range(sq) == { sq[n] : n \in DOMAIN sq }

\* sequences of k pairwise distinct elements of S
DistinctSeqs(S, k) ==
    { sq \in [1 .. k -> S] : \A m, n \in 1 .. k : m # n => sq[m] # sq[n] }

StochasticLe(r, sample_prob) == ~RLess(sample_prob, r)

\* _sample: the decision random.random() < sample_prob
Stochastic(r, sample_prob) == RLess(r, sample_prob)

SampleWithReplacement(f, num_samples, stochastic) ==
    IF stochastic
    THEN IF cfg.annealing_topk # 0
         THEN [1 .. num_samples -> Range(TopK(f, cfg.annealing_topk))]
         ELSE [1 .. num_samples -> DOMAIN f]
    ELSE {TopK(f, num_samples)}

\* _sample for one row f of scores: the index sequences it can return.
\* softmax gives every candidate a positive probability, so multinomial can
\* draw any num_samples distinct candidates (of the top annealing_topk).
Sample(f, num_samples, stochastic) ==
    IF stochastic
    THEN IF cfg.annealing_topk # 0
         THEN DistinctSeqs(Range(TopK(f, cfg.annealing_topk)), num_samples)
         ELSE DistinctSeqs(DOMAIN f, num_samples)
    ELSE {TopK(f, num_samples)}

\* ------------------------------------------------------- steps of the run
\* the initial tensors and the number of steps (lines 187-206)
EnterInit(s) ==
    [s EXCEPT
        !.pc = "loop",
        !.prevs = [b \in Batch |-> [j \in Beams |-> <<bos_id>>]],
        !.beam_scores = [b \in Batch |-> [j \in Beams |-> RInt(0)]],
        !.beam_lens = [b \in Batch |-> [j \in Beams |-> 1]],
        !.is_end = [b \in Batch |-> [j \in Beams |-> FALSE]],
        !.current_sample_prob = RInt(1),
        !.diversity_penalty = [b \in Batch |-> [t \in Vocab |-> 0]],
        !.past = [b \in Batch |-> [j \in Beams |-> <<>>]],
        !.max_seq_len =
            Min(cfg.n_pos_embeddings - Len(<<bos_id>>)
                  - (IF cfg.starts_len # -1 THEN cfg.starts_len ELSE 0),
                cfg.max_seq_len)]

EnterAlways(s) == EnterInit(s)

\* beam_search up to the step loop: the empty-input return (lines 184-185),
\* else the initialisation
Enter(s) ==
    IF cfg.n_contexts = 0 /\ cfg.starts_len = -1
    THEN [s EXCEPT !.pc = "done", !.predicts = <<>>]
    ELSE EnterInit(s)

\* the tokens of beam_starts (any tokens: the decoder's output is free)
BeamStarts == IF cfg.starts_len > 0 THEN [n \in 1 .. cfg.starts_len |-> eos_id + 1] ELSE <<>>

Last(sq) == sq[Len(sq)]

\* Tensor.view(batch_size, diversity_groups, group_size, -1) of a tensor of
\* batch_size * beam_size elements succeeds when the known sizes are not
\* zero and divide the number of elements
ViewOk ==
    /\ cfg.batch_size * cfg.diversity_groups * group_size # 0
    /\ (cfg.batch_size * cfg.beam_size)
          % (cfg.batch_size * cfg.diversity_groups * group_size) = 0

\* the log-probabilities the decoder can return: a row per beam, the same row
\* for beams of one batch item with the same token history and cache.  The
\* row of an ended beam is multiplied by 0 (line 220): one row stands for all.
EndedRow == <<-4, -4, -2, -1, -3>>

LogProbs(s) ==
    { lp \in [Batch -> [Beams -> Rows]] :
        \A b \in Batch : \A j, k \in Beams :
            /\ (s.prevs[b][j] = s.prevs[b][k] /\ s.past[b][j] = s.past[b][k])
                  => lp[b][j] = lp[b][k]
            /\ s.is_end[b][j] => lp[b][j] = EndedRow }

\* the cache the decoder returns: a buffer whose rows are the batch_size *
\* beam_size beams, each row grown by one entry per position of its input
CacheAppend(pst, inputs) ==
    [b \in Batch |-> [j \in Beams |-> pst[b][j] \o inputs[b][j]]]

\* one decoder invocation and the scoring of all continuations (lines 209-222),
\* then the branch on i and the views of the i > 0 branch (lines 231-232)
Decode(s, lp) ==
    LET pen == [b \in Batch |-> [j \in Beams |->
                   LengthPenalty(s.beam_lens[b][j] + 1
                                   - (IF s.is_end[b][j] THEN 1 ELSE 0))]]
        inputs == [b \in Batch |-> [j \in Beams |->
                   IF s.i = 0 THEN BeamStarts \o <<Last(s.prevs[b][j])>>
                   ELSE <<Last(s.prevs[b][j])>>]]
    IN  [s EXCEPT
            !.calls = s.calls + 1,
            !.past = CacheAppend(s.past, inputs),
            !.log_probs = lp,
            !.entry_scores = s.beam_scores,
            !.penalty = pen,
            !.cand = [b \in Batch |-> [j \in Beams |-> [t \in Vocab |->
                        RDiv(RAdd(s.beam_scores[b][j],
                                  RInt(lp[b][j][t + 1]
                                         * (1 - (IF s.is_end[b][j] THEN 1 ELSE 0)))),
                             pen[b][j])]]],
            !.g = 0,
            !.sampled = <<>>,
            !.all_scores = [b \in Batch |-> <<>>],
            !.all_idxs = [b \in Batch |-> <<>>],
            !.pc = IF s.i = 0 THEN "first"
                   ELSE IF ViewOk THEN "group" ELSE "error"]

SelectFirstWorst(s) ==
    LET top == [b \in Batch |->
                  TopK([t \in Vocab |-> RSub(RInt(0), s.cand[b][0][t])], cfg.beam_size)]
    IN  [s EXCEPT
            !.penalty = [b \in Batch |-> [j \in Beams |-> s.penalty[b][0]]],
            !.beam_scores = [b \in Batch |-> [j \in Beams |-> s.cand[b][0][top[b][j + 1]]]],
            !.idxs = [b \in Batch |-> [j \in Beams |-> top[b][j + 1]]],
            !.beam_idxs = [b \in Batch |-> [j \in Beams |-> 0]],
            !.pc = "update"]

SelectFirstPerBeam(s) ==
    [s EXCEPT
        !.beam_scores = [b \in Batch |-> [j \in Beams |->
                            s.cand[b][j][TopK(s.cand[b][j], 1)[1]]]],
        !.idxs = [b \in Batch |-> [j \in Beams |-> TopK(s.cand[b][j], 1)[1]]],
        !.beam_idxs = [b \in Batch |-> [j \in Beams |-> j]],
        !.pc = "update"]

\* step 0 (lines 225-229): the top beam_size tokens of beam 0
SelectFirst(s) ==
    LET top == [b \in Batch |-> TopK(s.cand[b][0], cfg.beam_size)]
    IN  [s EXCEPT
            !.penalty = [b \in Batch |-> [j \in Beams |-> s.penalty[b][0]]],
            !.beam_scores = [b \in Batch |-> [j \in Beams |-> s.cand[b][0][top[b][j + 1]]]],
            !.idxs = [b \in Batch |-> [j \in Beams |-> top[b][j + 1]]],
            !.beam_idxs = [b \in Batch |-> [j \in Beams |-> 0]],
            !.pc = "update"]

\* g_beam_scores of group s.g flattened (lines 236-239): candidate c is
\* token c % V of the group's beam c \div V
GBeamScores(s, b) ==
    [c \in 0 .. (group_size * n_embeddings - 1) |->
        LET j == s.g * group_size + (c \div n_embeddings)
            t == c % n_embeddings
        IN  RSub(s.cand[b][j][t],
                 RDiv(RMul(RInt(cfg.diversity_coef), RInt(s.diversity_penalty[b][t])),
                      s.penalty[b][j]))]

GroupChoicesPerItem(s, r) ==
    LET opts == [b \in Batch |-> Sample(GBeamScores(s, b), group_size,
                                        b > 0 \/ Stochastic(r, s.current_sample_prob))]
    IN  { ch \in [Batch -> UNION { opts[b] : b \in Batch }] :
            \A b \in Batch : ch[b] \in opts[b] }

\* what _sample can return for group s.g, for every batch item, when
\* random.random() returns r
GroupChoices(s, r) ==
    LET opts == [b \in Batch |-> Sample(GBeamScores(s, b), group_size,
                                        Stochastic(r, s.current_sample_prob))]
    IN  { ch \in [Batch -> UNION { opts[b] : b \in Batch }] :
            \A b \in Batch : ch[b] \in opts[b] }

SelectGroupOverwrite(s, r, ch) ==
    LET gsc == [b \in Batch |-> GBeamScores(s, b)]
        off == s.g * group_size * n_embeddings
        g_idxs == [b \in Batch |-> [n \in 1 .. group_size |-> ch[b][n] + off]]
        g_scores == [b \in Batch |-> [n \in 1 .. group_size |-> gsc[b][ch[b][n]]]]
    IN  [s EXCEPT
            !.cand = [b \in Batch |-> [j \in Beams |-> [t \in Vocab |->
                        IF j \div group_size = s.g
                        THEN gsc[b][(j - s.g * group_size) * n_embeddings + t]
                        ELSE s.cand[b][j][t]]]],
            !.all_scores = [b \in Batch |-> s.all_scores[b] \o g_scores[b]],
            !.all_idxs = [b \in Batch |-> s.all_idxs[b] \o g_idxs[b]],
            !.diversity_penalty = [b \in Batch |-> [t \in Vocab |->
                        Cardinality({n \in 1 .. group_size :
                                           g_idxs[b][n] % n_embeddings = t})]],
            !.sampled = Append(s.sampled, Stochastic(r, s.current_sample_prob)),
            !.g = s.g + 1]

SelectGroupNoOffset(s, r, ch) ==
    LET gsc == [b \in Batch |-> GBeamScores(s, b)]
        off == 0
        g_idxs == [b \in Batch |-> [n \in 1 .. group_size |-> ch[b][n] + off]]
        g_scores == [b \in Batch |-> [n \in 1 .. group_size |-> gsc[b][ch[b][n]]]]
    IN  [s EXCEPT
            !.cand = [b \in Batch |-> [j \in Beams |-> [t \in Vocab |->
                        IF j \div group_size = s.g
                        THEN gsc[b][(j - s.g * group_size) * n_embeddings + t]
                        ELSE s.cand[b][j][t]]]],
            !.all_scores = [b \in Batch |-> s.all_scores[b] \o g_scores[b]],
            !.all_idxs = [b \in Batch |-> s.all_idxs[b] \o g_idxs[b]],
            !.diversity_penalty = [b \in Batch |-> [t \in Vocab |->
                        s.diversity_penalty[b][t]
                          + Cardinality({n \in 1 .. group_size :
                                           g_idxs[b][n] % n_embeddings = t})]],
            !.sampled = Append(s.sampled, Stochastic(r, s.current_sample_prob)),
            !.g = s.g + 1]

\* one iteration of the loop over the diversity groups (lines 236-249) with
\* r the value of random.random() and ch the indices _sample returns
SelectGroup(s, r, ch) ==
    LET gsc == [b \in Batch |-> GBeamScores(s, b)]
        off == s.g * group_size * n_embeddings
        g_idxs == [b \in Batch |-> [n \in 1 .. group_size |-> ch[b][n] + off]]
        g_scores == [b \in Batch |-> [n \in 1 .. group_size |-> gsc[b][ch[b][n]]]]
    IN  [s EXCEPT
            !.cand = [b \in Batch |-> [j \in Beams |-> [t \in Vocab |->
                        IF j \div group_size = s.g
                        THEN gsc[b][(j - s.g * group_size) * n_embeddings + t]
                        ELSE s.cand[b][j][t]]]],
            !.all_scores = [b \in Batch |-> s.all_scores[b] \o g_scores[b]],
            !.all_idxs = [b \in Batch |-> s.all_idxs[b] \o g_idxs[b]],
            !.diversity_penalty = [b \in Batch |-> [t \in Vocab |->
                        s.diversity_penalty[b][t]
                          + Cardinality({n \in 1 .. group_size :
                                           g_idxs[b][n] % n_embeddings = t})]],
            !.sampled = Append(s.sampled, Stochastic(r, s.current_sample_prob)),
            !.g = s.g + 1]

MergeNoReset(s) ==
    [s EXCEPT
        !.beam_scores = [b \in Batch |-> [j \in Beams |-> s.all_scores[b][j + 1]]],
        !.idxs = [b \in Batch |-> [j \in Beams |-> s.all_idxs[b][j + 1]]],
        !.beam_idxs = [b \in Batch |-> [j \in Beams |->
                          s.all_idxs[b][j + 1] \div n_embeddings]],
        !.pc = "update"]

\* after the loop over the groups (lines 251-256)
Merge(s) ==
    [s EXCEPT
        !.diversity_penalty = [b \in Batch |-> [t \in Vocab |-> 0]],
        !.beam_scores = [b \in Batch |-> [j \in Beams |-> s.all_scores[b][j + 1]]],
        !.idxs = [b \in Batch |-> [j \in Beams |-> s.all_idxs[b][j + 1]]],
        !.beam_idxs = [b \in Batch |-> [j \in Beams |->
                          s.all_idxs[b][j + 1] \div n_embeddings]],
        !.pc = "update"]

FixPastKeep(pst, bidx) == pst

\* _fix_past: every cache buffer gathered along the beam axis by beam_idxs
FixPast(pst, bidx) ==
    [b \in Batch |-> [j \in Beams |-> pst[b][bidx[b][j]]]]

AnyEnded(e) == \E b \in Batch : \E j \in Beams : e[b][j]

\* all(is_end.view(-1)) (line 274)
AllEnded(e) == \A b \in Batch : \A j \in Beams : e[b][j]

\* the penalty the scores are multiplied by when the loop goes on (line 277)
BackPenalty(s, b, j) == s.penalty[b][j]

UpdateGrowAll(s) ==
    LET end1 == [b \in Batch |-> [j \in Beams |-> s.is_end[b][s.beam_idxs[b][j]]]]
        len1 == [b \in Batch |-> [j \in Beams |-> s.beam_lens[b][s.beam_idxs[b][j]]]]
        sym == [b \in Batch |-> [j \in Beams |->
                  IF end1[b][j] THEN padding_idx ELSE s.idxs[b][j] % n_embeddings]]
        end2 == [b \in Batch |-> [j \in Beams |-> end1[b][j] \/ sym[b][j] = eos_id]]
        u == [s EXCEPT
                !.is_end = end2,
                !.beam_lens = [b \in Batch |-> [j \in Beams |->
                                 len1[b][j] + 1]],
                !.prevs = [b \in Batch |-> [j \in Beams |->
                             Append(s.prevs[b][s.beam_idxs[b][j]], sym[b][j])]],
                !.past = FixPast(s.past, s.beam_idxs)]
    IN  IF AllEnded(end2)
        THEN [u EXCEPT !.pc = "select"]
        ELSE [u EXCEPT
                !.beam_scores = [b \in Batch |-> [j \in Beams |->
                                   RMul(s.beam_scores[b][j], BackPenalty(s, b, j))]],
                !.current_sample_prob = RMul(s.current_sample_prob, cfg.annealing_proba),
                !.i = s.i + 1,
                !.pc = "loop"]

UpdateNoAnneal(s) ==
    LET end1 == [b \in Batch |-> [j \in Beams |-> s.is_end[b][s.beam_idxs[b][j]]]]
        len1 == [b \in Batch |-> [j \in Beams |-> s.beam_lens[b][s.beam_idxs[b][j]]]]
        sym == [b \in Batch |-> [j \in Beams |->
                  IF end1[b][j] THEN padding_idx ELSE s.idxs[b][j] % n_embeddings]]
        end2 == [b \in Batch |-> [j \in Beams |-> end1[b][j] \/ sym[b][j] = eos_id]]
        u == [s EXCEPT
                !.is_end = end2,
                !.beam_lens = [b \in Batch |-> [j \in Beams |->
                                 IF ~end1[b][j] THEN len1[b][j] + 1 ELSE len1[b][j]]],
                !.prevs = [b \in Batch |-> [j \in Beams |->
                             Append(s.prevs[b][s.beam_idxs[b][j]], sym[b][j])]],
                !.past = FixPast(s.past, s.beam_idxs)]
    IN  IF AllEnded(end2)
        THEN [u EXCEPT !.pc = "select"]
        ELSE [u EXCEPT
                !.beam_scores = [b \in Batch |-> [j \in Beams |->
                                   RMul(s.beam_scores[b][j], BackPenalty(s, b, j))]],
                !.i = s.i + 1,
                !.pc = "loop"]

\* the rest of the step (lines 258-278)
Update(s) ==
    LET end1 == [b \in Batch |-> [j \in Beams |-> s.is_end[b][s.beam_idxs[b][j]]]]
        len1 == [b \in Batch |-> [j \in Beams |-> s.beam_lens[b][s.beam_idxs[b][j]]]]
        sym == [b \in Batch |-> [j \in Beams |->
                  IF end1[b][j] THEN padding_idx ELSE s.idxs[b][j] % n_embeddings]]
        end2 == [b \in Batch |-> [j \in Beams |-> end1[b][j] \/ sym[b][j] = eos_id]]
        u == [s EXCEPT
                !.is_end = end2,
                !.beam_lens = [b \in Batch |-> [j \in Beams |->
                                 IF ~end1[b][j] THEN len1[b][j] + 1 ELSE len1[b][j]]],
                !.prevs = [b \in Batch |-> [j \in Beams |->
                             Append(s.prevs[b][s.beam_idxs[b][j]], sym[b][j])]],
                !.past = FixPast(s.past, s.beam_idxs)]
    IN  IF AllEnded(end2)
        THEN [u EXCEPT !.pc = "select"]
        ELSE [u EXCEPT
                !.beam_scores = [b \in Batch |-> [j \in Beams |->
                                   RMul(s.beam_scores[b][j], BackPenalty(s, b, j))]],
                !.current_sample_prob = RMul(s.current_sample_prob, cfg.annealing_proba),
                !.i = s.i + 1,
                !.pc = "loop"]

\* the beams the result is taken from (lines 286-290): any beam when
\* sample_best_beam (softmax leaves no beam with probability 0), else argmax
BestBeams(s) ==
    IF cfg.sample_best_beam
    THEN [Batch -> Beams]
    ELSE { [b \in Batch |-> Best(s.beam_scores[b], Beams)] }

BestSeqToLen(s, b, best) ==
    SubSeq(s.prevs[b][best], 2, s.beam_lens[b][best])

\* result[i, bests[i], 1:best_len-1]
BestSeq(s, b, best) ==
    SubSeq(s.prevs[b][best], 2, s.beam_lens[b][best] - 1)

\* the return of beam_search (lines 280-297), bst the beams chosen
Finish(s, bst) ==
    IF cfg.return_beams
    THEN [s EXCEPT !.pc = "done", !.predicts = <<s.prevs, s.beam_lens>>]
    ELSE [s EXCEPT !.pc = "done", !.bests = bst,
                   !.predicts = [b \in Batch |-> BestSeq(s, b, bst[b])]]

InRangeLe(s) == s.i <= s.max_seq_len

\* for i in range(max_seq_len): another step is due
InRange(s) == s.i < s.max_seq_len

\* ------------------------------------------------------------ the machine
InitWith(configs) ==
    /\ cfg \in configs
    /\ tie \in {"first", "last"}
    /\ pc = Idle.pc /\ i = Idle.i /\ g = Idle.g /\ max_seq_len = Idle.max_seq_len
    /\ calls = Idle.calls /\ prevs = Idle.prevs /\ beam_scores = Idle.beam_scores
    /\ beam_lens = Idle.beam_lens /\ is_end = Idle.is_end /\ cand = Idle.cand
    /\ entry_scores = Idle.entry_scores
    /\ penalty = Idle.penalty /\ log_probs = Idle.log_probs
    /\ diversity_penalty = Idle.diversity_penalty /\ past = Idle.past
    /\ current_sample_prob = Idle.current_sample_prob
    /\ all_scores = Idle.all_scores /\ all_idxs = Idle.all_idxs /\ idxs = Idle.idxs
    /\ beam_idxs = Idle.beam_idxs /\ sampled = Idle.sampled /\ bests = Idle.bests
    /\ predicts = Idle.predicts
    /\ twin = Idle
    /\ draws = <<>>

Init == InitWith(Configs)

BeamSearch ==
    /\ pc = "start"
    /\ Set(Enter(Cur))
    /\ UNCHANGED <<cfg, tie, twin, draws>>

DecodeStep ==
    /\ pc = "loop" /\ InRange(Cur)
    /\ \E lp \in LogProbs(Cur) : Set(Decode(Cur, lp))
    /\ UNCHANGED <<cfg, tie, twin, draws>>

SelectFirstStep ==
    /\ pc = "first"
    /\ Set(SelectFirst(Cur))
    /\ UNCHANGED <<cfg, tie, twin, draws>>

SelectGroupStep ==
    /\ pc = "group" /\ g < cfg.diversity_groups
    /\ \E r \in RandVals : \E ch \in GroupChoices(Cur, r) : Set(SelectGroup(Cur, r, ch))
    /\ UNCHANGED <<cfg, tie, twin, draws>>

MergeStep ==
    /\ pc = "group" /\ g >= cfg.diversity_groups
    /\ Set(Merge(Cur))
    /\ UNCHANGED <<cfg, tie, twin, draws>>

UpdateStep ==
    /\ pc = "update"
    /\ Set(Update(Cur))
    /\ UNCHANGED <<cfg, tie, twin, draws>>

LoopExit ==
    /\ pc = "loop" /\ ~InRange(Cur)
    /\ pc' = "select"
    /\ UNCHANGED <<cfg, tie, twin, draws, i, g, max_seq_len, calls, prevs, beam_scores,
                   beam_lens, is_end, entry_scores, cand, penalty, log_probs, diversity_penalty,
                   past, current_sample_prob, all_scores, all_idxs, idxs,
                   beam_idxs, sampled, bests, predicts>>

FinishStep ==
    /\ pc = "select"
    /\ \E bst \in BestBeams(Cur) : Set(Finish(Cur, bst))
    /\ UNCHANGED <<cfg, tie, twin, draws>>

Next ==
    \/ BeamSearch
    \/ DecodeStep
    \/ SelectFirstStep
    \/ SelectGroupStep
    \/ MergeStep
    \/ UpdateStep
    \/ LoopExit
    \/ FinishStep

Spec == Init /\ [][Next]_vars

\* ---------------------------------------------- two runs of the same call
\* The same configuration, arguments and decoder, each run with its own
\* values of random.random() and its own draws of torch.multinomial.
PairCfgs ==
    { c \in GreedyCfgs \cup BatchCfgs \cup CallCfgs : c.max_seq_len <= MaxShortLen }
    \cup { [BaseCfg EXCEPT !.beam_size = 1, !.annealing_proba = p,
                            !.annealing_topk = 2, !.max_seq_len = MaxSeqLen] :
              p \in {<<0, 1>>, <<1, 1>>} }

AtDecoder(s) == s.pc = "loop" /\ InRange(s)
Returned(s) == s.pc \in {"done", "error"}
AtSample(s) == s.pc = "group" /\ s.g < cfg.diversity_groups

\* the next positions of a run that is not at a decoder call, r the value
\* random.random() returns if the step calls it
RunSteps(s, r) ==
    CASE s.pc = "start" -> {Enter(s)}
      [] s.pc = "first" -> {SelectFirst(s)}
      [] AtSample(s) -> { SelectGroup(s, r, ch) : ch \in GroupChoices(s, r) }
      [] s.pc = "group" /\ ~AtSample(s) -> {Merge(s)}
      [] s.pc = "update" -> {Update(s)}
      [] s.pc = "loop" /\ ~InRange(s) -> {[s EXCEPT !.pc = "select"]}
      [] s.pc = "select" -> { Finish(s, bst) : bst \in BestBeams(s) }
      [] OTHER -> {s}

\* one decoder: beams with the same history and cache get the same row
SameDecoder(s1, lp1, s2, lp2) ==
    \A b \in Batch : \A j, k \in Beams :
        (s1.prevs[b][j] = s2.prevs[b][k] /\ s1.past[b][j] = s2.past[b][k])
            => lp1[b][j] = lp2[b][k]

PairInit == InitWith(PairCfgs)

PairDecode ==
    /\ AtDecoder(Cur) /\ AtDecoder(twin)
    /\ \E lp1 \in LogProbs(Cur) : \E lp2 \in LogProbs(twin) :
          /\ SameDecoder(Cur, lp1, twin, lp2)
          /\ Set(Decode(Cur, lp1))
          /\ twin' = Decode(twin, lp2)
    /\ UNCHANGED <<cfg, tie, draws>>

PairLocal ==
    /\ ~(AtDecoder(Cur) \/ Returned(Cur)) \/ ~(AtDecoder(twin) \/ Returned(twin))
    /\ \E r1, r2 \in RandVals :
          /\ \E n1 \in RunSteps(Cur, r1) : Set(n1)
          /\ \E n2 \in RunSteps(twin, r2) : twin' = n2
          /\ draws' = IF AtSample(Cur) /\ AtSample(twin) THEN <<r1, r2>> ELSE draws
    /\ UNCHANGED <<cfg, tie>>

SoloDecodeRun ==
    /\ AtDecoder(Cur) /\ Returned(twin)
    /\ \E lp \in LogProbs(Cur) : Set(Decode(Cur, lp))
    /\ UNCHANGED <<cfg, tie, twin, draws>>

SoloDecodeTwin ==
    /\ AtDecoder(twin) /\ Returned(Cur)
    /\ \E lp \in LogProbs(twin) : twin' = Decode(twin, lp)
    /\ UNCHANGED <<cfg, tie, runvars, draws>>

PairNext ==
    \/ PairDecode
    \/ PairLocal
    \/ SoloDecodeRun
    \/ SoloDecodeTwin

PairSpec == PairInit /\ [][PairNext]_vars

\* ------------------------------------------------------------------ claims
EmptyInput == cfg.n_contexts = 0 /\ cfg.starts_len = -1
Greedy == cfg.annealing_proba = <<0, 1>>
Ran == pc \in {"loop", "first", "group", "update", "select", "done", "error"} /\ ~EmptyInput
EveryBeamEnded == \A b \in Batch : \A j \in Beams : is_end[b][j]

\* C1 (as claimed): in a step after which the loop goes on, a slot whose
\* parent beam was ended keeps the parent's score and length, and its token
\* history is the parent's history followed by one padding token.
C1_EndedFrozen ==
    [][(pc = "update" /\ pc' = "loop") =>
         \A b \in Batch : \A j \in Beams :
            LET p == beam_idxs[b][j] IN
            is_end[b][p] =>
                /\ beam_scores'[b][j] = entry_scores[b][p]
                /\ beam_lens'[b][j] = beam_lens[b][p]
                /\ prevs'[b][j] = Append(prevs[b][p], padding_idx)
                /\ is_end'[b][j]]_vars

\* C2: the decoder is invoked at most
\* min(max_seq_len, n_pos_embeddings - 1 - prefix length) times, and every call
\* of beam_search comes to an end (a return or a raised error).
StepLimit ==
    Min(cfg.max_seq_len,
        cfg.n_pos_embeddings - 1 - (IF cfg.starts_len = -1 THEN 0 ELSE cfg.starts_len))

\* a rank no step fails to lower: the steps left, in units of the positions
\* of one step (the decoder call, one per group, the merge, the update)
StepCost == cfg.diversity_groups + 3
StepsLeft == IF max_seq_len > i THEN max_seq_len - i ELSE 0
Rank ==
    CASE pc \in {"done", "error"} -> 0
      [] pc = "select" -> 1
      [] pc = "start" -> 3 + (IF StepLimit > 0 THEN StepLimit ELSE 0) * StepCost
      [] pc = "loop" -> 2 + StepsLeft * StepCost
      [] pc = "first" -> 2 + StepsLeft * StepCost - 1
      [] pc = "group" -> 2 + StepsLeft * StepCost - 1 - g
      [] pc = "update" -> 2 + StepsLeft * StepCost - 2 - cfg.diversity_groups

\* a call that has not ended can take its next step
CanStep ==
    /\ (pc = "loop" /\ InRange(Cur)) => LogProbs(Cur) # {}
    /\ (pc = "group" /\ g < cfg.diversity_groups) =>
          \E r \in RandVals : GroupChoices(Cur, r) # {}
    /\ pc = "select" => BestBeams(Cur) # {}

C2_Terminates ==
    /\ [](calls <= StepLimit /\ Rank >= 0 /\ CanStep)
    /\ [][Rank' < Rank]_vars

C2_Witness ==
    /\ pc = "done" /\ calls = StepLimit /\ calls >= 2
    /\ \A b \in Batch : \A j \in Beams : ~is_end[b][j]

\* C3: when the beam chosen for a batch item has ended, the returned sequence
\* is the tokens strictly between the seed token and the end token of its
\* history (the empty sequence when the end token comes first), and what
\* follows the end token in the history is padding.
C3_EndedResult ==
    (pc = "done" /\ ~EmptyInput /\ ~cfg.return_beams) =>
        \A b \in Batch :
            LET h == prevs[b][bests[b]] IN
            is_end[b][bests[b]] =>
                /\ h[1] = bos_id
                /\ \E k \in 2 .. Len(h) :
                      /\ h[k] = eos_id
                      /\ \A m \in 2 .. (k - 1) : h[m] # eos_id
                      /\ \A m \in (k + 1) .. Len(h) : h[m] = padding_idx
                      /\ predicts[b] = [n \in 1 .. (k - 2) |-> h[n + 1]]

C3_Witness ==
    /\ pc = "done" /\ ~cfg.return_beams /\ cfg.batch_size = 2
    /\ is_end[0][bests[0]] /\ is_end[1][bests[1]]
    /\ Len(predicts[0]) >= 1
    /\ predicts[1] = <<>> /\ Len(prevs[1][bests[1]]) >= 3

\* C4 (as claimed): when the beam chosen for a batch item has not ended, the
\* returned sequence is every token of its history after the seed token.
C4_UnendedResult ==
    (pc = "done" /\ ~EmptyInput /\ ~cfg.return_beams) =>
        \A b \in Batch :
            ~is_end[b][bests[b]] => predicts[b] = Tail(prevs[b][bests[b]])

\* C5: with one beam, one group and greedy selection, the token a step appends
\* to a beam that had not ended has the largest log-probability of the row the
\* decoder returned for it in that step.
C5_GreedyArgmax ==
    [][(pc = "update" /\ cfg.beam_size = 1 /\ cfg.diversity_groups = 1 /\ Greedy) =>
         \A b \in Batch :
            ~is_end[b][0] =>
                \A t \in Vocab :
                    log_probs[b][0][t + 1] <= log_probs[b][0][Last(prevs'[b][0]) + 1]]_vars

C5_Witness ==
    /\ cfg.beam_size = 1 /\ cfg.diversity_groups = 1 /\ Greedy
    /\ cfg.length_penalty_coef = 1
    /\ pc = "loop" /\ i >= 2
    /\ ~is_end[0][0]

\* C6: with no encoded context and no beam-starting prefix the call returns
\* the empty list and the decoder is not invoked.
C6_EmptyInput ==
    (EmptyInput /\ pc # "start") => (pc = "done" /\ predicts = <<>> /\ calls = 0)

C6_Witness == EmptyInput /\ pc = "done"

\* C7 (as claimed): with beam_size not divisible by diversity_groups the
\* decoder is never invoked.
C7_RejectedFirst ==
    (cfg.beam_size % cfg.diversity_groups # 0) => calls = 0

\* C8: one decoder invocation per step; the loop is left when every beam of
\* every batch item is ended or the step count has reached the maximum, and
\* the decoder is not invoked after that.
C8_LoopEnds ==
    /\ [](/\ (~EmptyInput /\ pc \in {"loop", "select", "done"}) =>
                \A b \in Batch : \A j \in Beams : calls = Len(prevs[b][j]) - 1
          /\ pc = "loop" => ~EveryBeamEnded
          /\ calls <= (IF max_seq_len < 0 THEN 0 ELSE max_seq_len)
          /\ (~EmptyInput /\ pc \in {"select", "done"}) =>
                (EveryBeamEnded \/ calls = max_seq_len))
    /\ [][(pc \in {"select", "done"}) => (calls' = calls)]_vars

C8_Witness ==
    /\ pc = "done" /\ ~EmptyInput /\ EveryBeamEnded /\ calls >= 2 /\ calls < max_seq_len
    /\ cfg.batch_size = 2

\* C10: with diversity_coef = 0 or one diversity group, after step 0 the
\* scores every group selects from are the length-normalized scores, and the
\* selected scores are the length-normalized scores of the selected
\* candidates.
NormScore(b, j, t) ==
    RDiv(RAdd(entry_scores[b][j],
              RInt(IF is_end[b][j] THEN 0 ELSE log_probs[b][j][t + 1])),
         LengthPenalty(beam_lens[b][j] + (IF is_end[b][j] THEN 0 ELSE 1)))

C10_PromoterOff ==
    ((cfg.diversity_coef = 0 \/ cfg.diversity_groups = 1) /\ i >= 1) =>
        /\ pc \in {"group", "update"} =>
              \A b \in Batch : \A j \in Beams : \A t \in Vocab :
                  cand[b][j][t] = NormScore(b, j, t)
        /\ pc = "update" =>
              \A b \in Batch : \A j \in Beams :
                  beam_scores[b][j] =
                      NormScore(b, beam_idxs[b][j], idxs[b][j] % n_embeddings)

C10_Witness ==
    /\ cfg.diversity_coef = 1 /\ cfg.diversity_groups = 1 /\ cfg.beam_size = 2
    /\ cfg.length_penalty_coef = 1
    /\ pc = "update" /\ i >= 2
    /\ \E j \in Beams : is_end[0][j]
    /\ \E j \in Beams : ~is_end[0][j]

\* C9: in greedy mode (annealing_proba = 0, no sample_best_beam), two runs
\* of the same call with the same decoder select the same candidates and hold
\* the same beams with the same scores at every position, end the same way and return the same output,
\* whatever random.random() returns in each.
C9_GreedyDeterministic ==
    (Greedy /\ ~cfg.sample_best_beam) =>
        /\ pc = twin.pc
        /\ all_idxs = twin.all_idxs /\ all_scores = twin.all_scores
        /\ prevs = twin.prevs /\ beam_scores = twin.beam_scores
        /\ is_end = twin.is_end /\ beam_lens = twin.beam_lens
        /\ predicts = twin.predicts

C9_Witness ==
    /\ Greedy /\ ~cfg.sample_best_beam /\ cfg.beam_size = 2
    /\ cfg.diversity_groups = 2
    /\ pc = "done" /\ twin.pc = "done"
    /\ draws # <<>> /\ draws[1] # draws[2]
    /\ predicts[0] # <<>>

\* C11: the length penalty is (5 + length)^alpha / 6^alpha: 1 at length 1,
\* constantly 1 when alpha = 0 and strictly increasing in the length when
\* alpha > 0, for the lengths a run can hand to it and in the penalties a
\* step computed (line 221).
PenaltyLens == 1 .. (MaxSeqLen + 2)
PenLen(b, j) == beam_lens[b][j] + 1 - (IF is_end[b][j] THEN 1 ELSE 0)

C11_PenaltyMonotone ==
    LET a == cfg.length_penalty_coef IN
    /\ LengthPenalty(1) = RInt(1)
    /\ \A l \in PenaltyLens :
          /\ LengthPenalty(l) = Rat(Pow(5 + l, a), Pow(6, a))
          /\ a = 0 => LengthPenalty(l) = RInt(1)
          /\ a > 0 => RLess(LengthPenalty(l), LengthPenalty(l + 1))
    /\ pc \in {"first", "group"} =>
          \A b \in Batch : \A j, k \in Beams :
              /\ penalty[b][j] = Rat(Pow(5 + PenLen(b, j), a), Pow(6, a))
              /\ a = 0 => penalty[b][j] = RInt(1)
              /\ (a > 0 /\ PenLen(b, j) < PenLen(b, k)) =>
                    RLess(penalty[b][j], penalty[b][k])

C11_Witness ==
    /\ cfg.length_penalty_coef = 2 /\ pc = "group"
    /\ \E j, k \in Beams : PenLen(0, j) < PenLen(0, k)

\* C12: with as many diversity groups as beams (groups of one beam) and
\* greedy selection, the beams of a batch item differ pairwise in their first
\* generated token after every step and in the result, whatever rows the
\* decoder returns.
HasFirstToken ==
    /\ ~EmptyInput /\ pc # "start"
    /\ \A b \in Batch : \A j \in Beams : Len(prevs[b][j]) >= 2

C12_DistinctFirst ==
    (Greedy /\ cfg.diversity_groups = cfg.beam_size /\ HasFirstToken) =>
        \A b \in Batch : \A j, k \in Beams :
            j # k => prevs[b][j][2] # prevs[b][k][2]

C12_Witness ==
    /\ Greedy /\ cfg.diversity_groups = 2 /\ cfg.beam_size = 2
    /\ pc = "done" /\ calls >= 2
    /\ prevs[0][0][3] = prevs[0][1][3] /\ prevs[0][0][3] # padding_idx
    /\ prevs[0][0][2] # prevs[0][1][2]

\* C13: a step reorders the token histories, the lengths, the ended flags
\* and the cache by the same parent indices: new slot j holds the history of
\* old slot beam_idxs[j] plus the new token, its length and flag updated for
\* that token, and its cache row; the cache rows keep their length.  So the
\* cache row of a slot is always the cache of that slot's own history.
Front(sq) == SubSeq(sq, 1, Len(sq) - 1)

C13_SameMapping ==
    /\ [][(pc = "update") =>
            \A b \in Batch : \A j \in Beams :
                LET p == beam_idxs[b][j] IN
                /\ Front(prevs'[b][j]) = prevs[b][p]
                /\ beam_lens'[b][j] = beam_lens[b][p] + (IF is_end[b][p] THEN 0 ELSE 1)
                /\ is_end'[b][j] = (is_end[b][p] \/ Last(prevs'[b][j]) = eos_id)
                /\ past'[b][j] = past[b][p]
                /\ Len(past'[b][j]) = Len(past[b][j])]_vars
    /\ []((~EmptyInput /\ calls >= 1 /\ pc \in {"loop", "select", "done"}) =>
            \A b \in Batch : \A j \in Beams :
                past[b][j] = BeamStarts \o Front(prevs[b][j]))

C13_Witness ==
    /\ pc = "loop" /\ i >= 2
    /\ beam_idxs[0][0] # 0
    /\ \E j, k \in Beams : past[0][j] # past[0][k]

\* C14: step i leaves every history with i + 2 entries, the first the seed
\* token.  A slot whose parent was ended is ended, keeps the length and gets
\* padding; a slot whose parent was not ended is one longer and is ended
\* exactly when its new token is the end token.  So a beam that is not ended
\* has length i + 2, and an ended beam has the end token as entry number
\* length and padding after it.
C14_StepShape ==
    [][(pc = "update") =>
         \A b \in Batch : \A j \in Beams :
            LET p == beam_idxs[b][j]
                h == prevs'[b][j]
                len == beam_lens'[b][j]
            IN  /\ Len(h) = i + 2 /\ h[1] = bos_id
                /\ is_end[b][p] =>
                      /\ is_end'[b][j] /\ Last(h) = padding_idx
                      /\ len = beam_lens[b][p]
                /\ ~is_end[b][p] =>
                      /\ len = beam_lens[b][p] + 1
                      /\ is_end'[b][j] <=> (Last(h) = eos_id)
                /\ ~is_end'[b][j] => len = i + 2
                /\ is_end'[b][j] =>
                      /\ len <= Len(h) /\ h[len] = eos_id
                      /\ \A m \in (len + 1) .. Len(h) : h[m] = padding_idx]_vars

C14_Witness ==
    /\ pc = "loop" /\ i >= 2 /\ cfg.beam_size >= 2
    /\ \E j \in Beams : is_end[0][j] /\ beam_lens[0][j] = 2 /\ Len(prevs[0][j]) >= 3
    /\ \E j \in Beams : ~is_end[0][j] /\ beam_lens[0][j] = Len(prevs[0][j])

\* C15: the selection of step 0 gives every slot the parent beam 0 and the
\* beam_size tokens of beam 0 with the highest score, best first and pairwise
\* distinct, with the plain length-normalized log-probability as score; it
\* makes no _sample call and leaves the diversity counter at zero, whatever
\* diversity_groups, diversity_coef and annealing_proba are.
C15_FirstStep ==
    (pc = "update" /\ i = 0) =>
        \A b \in Batch :
            /\ \A j \in Beams :
                  /\ beam_idxs[b][j] = 0
                  /\ idxs[b][j] \in Vocab
                  /\ beam_scores[b][j] =
                        RDiv(RInt(log_probs[b][0][idxs[b][j] + 1]), LengthPenalty(2))
                  /\ \A k \in Beams :
                        /\ j # k => idxs[b][j] # idxs[b][k]
                        /\ j < k => log_probs[b][0][idxs[b][j] + 1]
                                       >= log_probs[b][0][idxs[b][k] + 1]
                  /\ \A t \in Vocab \ {idxs[b][k] : k \in Beams} :
                        log_probs[b][0][t + 1] <= log_probs[b][0][idxs[b][j] + 1]
            /\ \A t \in Vocab : diversity_penalty[b][t] = 0
            /\ sampled = <<>>
            /\ current_sample_prob = RInt(1)

C15_Witness ==
    /\ pc = "update" /\ i = 0
    /\ cfg.beam_size = 2 /\ cfg.diversity_groups = 2 /\ cfg.diversity_coef = 1
    /\ cfg.annealing_proba = RInt(1) /\ cfg.length_penalty_coef = 1
    /\ log_probs[0][0][idxs[0][0] + 1] = log_probs[0][0][idxs[0][1] + 1]

\* C16: after step 0 the groups are handled in the order 0, 1, ..; when
\* group g is handled the counter of a token is the number of candidates with
\* that token that groups 0 .. g-1 selected for the batch item in this step
\* (zero for every token at group 0), and outside the loop over the groups
\* the counter is zero for every token.
CountOf(b, t) ==
    Cardinality({n \in 1 .. Len(all_idxs[b]) : all_idxs[b][n] % n_embeddings = t})

C16_GroupCounter ==
    /\ [](/\ pc = "group" =>
                /\ g \in 0 .. cfg.diversity_groups
                /\ \A b \in Batch :
                      /\ Len(all_idxs[b]) = g * group_size
                      /\ \A t \in Vocab : diversity_penalty[b][t] = CountOf(b, t)
          /\ (~EmptyInput /\ pc \in {"loop", "first", "update", "select", "done"}) =>
                \A b \in Batch : \A t \in Vocab : diversity_penalty[b][t] = 0)
    /\ [][/\ (pc = "loop" /\ pc' = "group") => (g' = 0)
          /\ (pc = "group" /\ g < cfg.diversity_groups) => (pc' = "group" /\ g' = g + 1)
          /\ (pc = "group" /\ pc' = "update") => (g = cfg.diversity_groups)]_vars

C16_Witness ==
    /\ pc = "group" /\ cfg.diversity_groups = 2 /\ g = 2 /\ i >= 1
    /\ \E t \in Vocab : diversity_penalty[0][t] = 2

\* C17: the sampling probability is 1 at step 0 and annealing_proba^i at
\* step i, the value every _sample call of the step is handed; with
\* annealing_proba = 0 no _sample call selects stochastically.
RPow(x, n) == Rat(Pow(x[1], n), Pow(x[2], n))

C17_Annealing ==
    /\ [](/\ (~EmptyInput /\ pc # "start") =>
                current_sample_prob = RPow(cfg.annealing_proba, i)
          /\ (Greedy /\ pc \in {"group", "update"}) =>
                \A n \in 1 .. Len(sampled) : ~sampled[n])
    /\ [][(pc = "group" /\ g < cfg.diversity_groups) =>
            \E r \in RandVals :
                sampled' = Append(sampled, RLess(r, RPow(cfg.annealing_proba, i)))]_vars

C17_Witness ==
    /\ pc = "group" /\ i >= 1 /\ g >= 1
    /\ cfg.annealing_proba = <<1, 2>> /\ current_sample_prob = <<1, 2>>
    /\ sampled[1]

\* C18 (as claimed): all _sample calls of one step decide the same way
\* between stochastic and greedy selection.
C18_OneDecisionPerStep ==
    (pc \in {"group", "update"}) =>
        \A m, n \in 1 .. Len(sampled) : sampled[m] = sampled[n]

\* C18 (amended): every _sample call - one diversity group of one step -
\* takes one decision for all batch items and beams of the group; the
\* decisions of one step agree when there is one group or the sampling
\* probability is 0 or 1.
GroupPicks(b) ==
    [n \in 1 .. group_size |->
        all_idxs'[b][g * group_size + n] - g * group_size * n_embeddings]

C18_OneDecisionPerCall ==
    /\ [][(pc = "group" /\ g < cfg.diversity_groups) =>
            \E d \in BOOLEAN :
                /\ sampled' = Append(sampled, d)
                /\ \A b \in Batch :
                      GroupPicks(b) \in Sample(GBeamScores(Cur, b), group_size, d)]_vars
    /\ []((/\ pc \in {"group", "update"}
           /\ \/ cfg.diversity_groups = 1
              \/ current_sample_prob \in {RInt(0), RInt(1)}) =>
            \A m, n \in 1 .. Len(sampled) : sampled[m] = sampled[n])

C18_Witness ==
    /\ cfg.batch_size = 2 /\ pc = "update" /\ i >= 1
    /\ current_sample_prob = <<1, 2>>
    /\ sampled = <<TRUE>>
    /\ idxs[0][0] # idxs[1][0] /\ log_probs[0] = log_probs[1]

\* C19: a _sample call that selects stochastically returns, for every batch
\* item, group_size pairwise distinct candidates of the row; with
\* annealing_topk set, fewer than annealing_topk candidates of the row score
\* higher than a returned one; the returned scores are the scores of the row
\* at the returned candidates.
C19_StochasticSample ==
    [][(pc = "group" /\ g < cfg.diversity_groups /\ Last(sampled')) =>
         \A b \in Batch :
            LET f == GBeamScores(Cur, b)
                picks == GroupPicks(b)
            IN  \A n \in 1 .. group_size :
                    /\ picks[n] \in DOMAIN f
                    /\ \A m \in 1 .. group_size : m # n => picks[m] # picks[n]
                    /\ cfg.annealing_topk # 0 =>
                          Cardinality({c \in DOMAIN f : RLess(f[picks[n]], f[c])})
                              < cfg.annealing_topk
                    /\ all_scores'[b][g * group_size + n] = f[picks[n]]]_vars

C19_Witness ==
    /\ pc = "group" /\ g = 1 /\ sampled = <<TRUE>>
    /\ cfg.annealing_topk = 2 /\ group_size = 2 /\ cfg.diversity_coef = 1
    /\ RLess(all_scores[0][1], all_scores[0][2])

\* C20 (as claimed): when the loop goes on after a step, the score of a slot
\* is multiplied back by the penalty its candidate was divided by, the
\* penalty of its parent beam; with the diversity penalty off the score
\* carried into the next step is then the parent's carried score plus the
\* log-probability of the new token if the parent was not ended.
PromoterOff == cfg.diversity_coef = 0 \/ cfg.diversity_groups = 1

C20_PenaltyUndone ==
    [][(pc = "update" /\ pc' = "loop") =>
         \A b \in Batch : \A j \in Beams :
            LET p == beam_idxs[b][j]
                t == idxs[b][j] % n_embeddings
            IN  /\ beam_scores'[b][j] = RMul(beam_scores[b][j], penalty[b][p])
                /\ PromoterOff =>
                      beam_scores'[b][j] =
                          RAdd(entry_scores[b][p],
                               RInt(IF is_end[b][p] THEN 0
                                    ELSE log_probs[b][p][t + 1]))]_vars

\* C21 (as claimed): however the loop ends, the scores the result is chosen
\* from are the length-normalized scores of the last selection (checked with
\* the diversity penalty off, where the selected score is the normalized one).
C21_FinalNormalized ==
    (pc = "select" /\ ~EmptyInput /\ calls >= 1 /\ PromoterOff) =>
        \A b \in Batch : \A j \in Beams :
            beam_scores[b][j] =
                cand[b][beam_idxs[b][j]][idxs[b][j] % n_embeddings]

\* C22 (as claimed): with the diversity penalty on, the score a selected
\* candidate gets after step 0 is still the length-normalized score of its
\* parent and token, as it would be with diversity_coef = 0.
C22_PenaltyNotCarried ==
    (pc = "update" /\ i >= 1 /\ cfg.diversity_coef > 0 /\ cfg.diversity_groups > 1) =>
        \A b \in Batch : \A j \in Beams :
            beam_scores[b][j] =
                NormScore(b, beam_idxs[b][j], idxs[b][j] % n_embeddings)

\* C23 (as claimed): after every step the slots of a batch item hold
\* pairwise different token histories.
StepDone == ~EmptyInput /\ calls >= 1 /\ pc \in {"loop", "select", "done"}

C23_NoDuplicates ==
    StepDone =>
        \A b \in Batch : \A j, k \in Beams :
            j # k => prevs[b][j] # prevs[b][k]

\* C23 (amended): after every step two slots of a batch item hold the same
\* token history only if both descend from a beam that had ended before the
\* step; a beam that is not ended or that ended in the step differs from
\* every other slot.
EndedBefore(b, j) == is_end[b][j] /\ beam_lens[b][j] < Len(prevs[b][j])

C23_DuplicatesOnlyEnded ==
    StepDone =>
        \A b \in Batch : \A j, k \in Beams :
            (j # k /\ prevs[b][j] = prevs[b][k]) =>
                (EndedBefore(b, j) /\ EndedBefore(b, k))

C23_Witness ==
    /\ pc = "loop" /\ calls >= 2
    /\ \E j, k \in Beams : j # k /\ prevs[0][j] = prevs[0][k]
    /\ \E j \in Beams : ~is_end[0][j]

\* C24: after step 0 every group selects group_size flat indices, each one
\* parent * n_embeddings + token with the token in the vocabulary and the
\* parent a beam of the group itself; the selection fills the beam_size slots
\* of every batch item, slot j from the group j belongs to.
GroupOf(j) == j \div group_size

C24_IndexDecomposition ==
    /\ pc = "group" =>
          \A b \in Batch :
              /\ Len(all_idxs[b]) = g * group_size
              /\ Len(all_scores[b]) = g * group_size
              /\ \A n \in 1 .. Len(all_idxs[b]) :
                    (all_idxs[b][n] \div n_embeddings) \div group_size
                        = (n - 1) \div group_size
    /\ (pc = "update" /\ i >= 1) =>
          \A b \in Batch :
              /\ Len(all_idxs[b]) = cfg.beam_size
              /\ DOMAIN idxs[b] = Beams /\ DOMAIN beam_idxs[b] = Beams
              /\ \A j \in Beams :
                    LET parent == beam_idxs[b][j]
                        token == idxs[b][j] % n_embeddings
                    IN  /\ idxs[b][j] = parent * n_embeddings + token
                        /\ token \in Vocab
                        /\ parent \in Beams
                        /\ parent >= GroupOf(j) * group_size
                        /\ parent < (GroupOf(j) + 1) * group_size

C24_Witness ==
    /\ pc = "update" /\ i >= 1
    /\ cfg.diversity_groups = 2 /\ cfg.beam_size = 2
    /\ idxs[0][1] >= n_embeddings
    /\ idxs[0][0] % n_embeddings = idxs[0][1] % n_embeddings
====
